---- MODULE Spec2Model ----
(***************************************************************************)
(* WRICEF tracker visualisation: the analysis script                       *)
(* (wricef_visualizer.py, class WRICEFDataVisualizer) and the Streamlit    *)
(* dashboard (streamlit_dashboard.py, class StreamlitWRICEFDashboard).     *)
(*                                                                         *)
(* A DataFrame is [cols |-> set of column names, rows |-> sequence of      *)
(* rows]; a row maps every column name, and "_index" (the row's index      *)
(* label), to a cell.  Cells are dynamically typed, as in pandas:          *)
(*   Str(s) a string, Num(n) a number (efforts in tenths of an hour),      *)
(*   Ts(k) a timestamp (k ticks after 2022-01-01 00:00, TicksPerDay ticks  *)
(*   a day), NaN a missing value, NaT a missing timestamp.                 *)
(***************************************************************************)
EXTENDS Integers, Sequences, FiniteSets, TLC

VARIABLES
    app,        \* "script" (wricef_visualizer.main), "dashboard" (streamlit main)
                \* or "setup" (setup.py)
    file,       \* the input: the file at file_path, or the uploaded-file handle
    pc,         \* position of the running main()
    df,         \* self.df of the visualizer / dashboard object
    rng,        \* numpy's global random state: [seed, pos]
    out,        \* status messages emitted so far in this run (print, st.*)
    err,        \* the exception that ended the run, "none" if none
    widgets,    \* dashboard: the sidebar widgets' session state
    sidebar,    \* dashboard: the options the sidebar offered in this run
    ret,        \* dashboard: the value create_filters returned, not yet assigned;
                \* setup: the value main() returned
    where,      \* the operation that raised err, "none" if none
    insights,   \* the statements generate_insights produced
    constructed, \* history: load_data has built a Dataset in this session
    status      \* setup: the exit status of the process, None while it runs

vars == <<app, file, pc, df, rng, out, err, widgets, sidebar, ret, where,
          insights, constructed, status>>

-----------------------------------------------------------------------------
(* Bounds of the model *)

\* rows of a loaded spreadsheet
MaxRows == 2
\* resolution of the time of day: ticks per calendar day
TicksPerDay == 2
\* most dates the date-range input may hold
MaxDateBounds == 2
\* the user picks 'All' or one of the first MaxPick values a selectbox lists
MaxPick == 1
\* calls made on the random-number generator: draws and create_sample_data
MaxCalls == 4
\* most values one other call draws from the generator
MaxDraw == 2
\* most required packages that cannot be imported when setup.py runs
MaxMissing == 2

-----------------------------------------------------------------------------
(* Cells *)

Str(s) == [t |-> "str", v |-> s]
\* the string f"{prefix} {n}"
Label(prefix, n) == [t |-> "str", prefix |-> prefix, n |-> n]
Num(n) == [t |-> "num", v |-> n]
Ts(k)  == [t |-> "ts", v |-> k]
\* a text cell that reads as the number n, such as "40"
NumStr(n) == [t |-> "numstr", v |-> n]
\* a text cell that reads as the calendar day k, such as "2022-01-02"
DateStr(k) == [t |-> "datestr", v |-> k]
NaN    == [t |-> "nan"]
NaT    == [t |-> "nat"]
None   == [t |-> "none"]

\* pandas' isna(): NaN, NaT and None cells are missing
IsNull(c) == c.t \in {"nan", "nat", "none"}

\* Python's == on two cells; a missing value equals nothing, not even itself
PyEq(a, b) == /\ ~IsNull(a)
              /\ ~IsNull(b)
              /\ a = b

\* Timestamp.date(): the calendar day of a timestamp, its time of day dropped
DateOf(c) == c.v \div TicksPerDay

-----------------------------------------------------------------------------
(* Columns *)

IMPL  == "Implementation"
PROJ  == "Project Name"
WTYPE == "WRICEF Type"
CPLX  == "Complexity"
PRIO  == "Priority of Delivery"
STAGE == "Stage"
AREA  == "Process Area"
ABAPF == "ABAP Effort Forecast (hrs)"
ABAPA == "ABAP Actual Effort (hrs)"
PIF   == "PI Effort Forecast (hrs)"
PIA   == "PI Actual Effort (hrs)"
FSD   == "FSD Planned Del Date"
DEVD  == "Dev Actual Delivery Date"
OWNER == "Functional Owner"
LEAD  == "Dev Lead"
INDEX == "_index"

\* the columns of the dashboard's sample data
DashCols == {IMPL, PROJ, WTYPE, CPLX, PRIO, STAGE, AREA, ABAPF, ABAPA, PIF, PIA,
             FSD, DEVD, OWNER, LEAD}
\* the columns of the analysis script's sample data
VizCols == {IMPL, WTYPE, CPLX, PRIO, STAGE, ABAPF, ABAPA, PIF, PIA, FSD, DEVD}

DataFrame(cols, rows) == [cols |-> cols, rows |-> rows]

\* len(df)
Length(d) == Len(d.rows)

\* df[c]: the cells of a column, in row order
Column(d, c) == [i \in 1..Len(d.rows) |-> d.rows[i][c]]

-----------------------------------------------------------------------------
(* numpy's global generator.  np.random.seed(s) sets the state to (s, 0);  *)
(* the k-th value drawn after it is a fixed function of s and k.           *)

Mix(s, k) == (s * 7919 + k * 10477 + 12345) % 32749

np_random_seed(s) == [seed |-> s, pos |-> 0]

\* the i-th of a block of draws that starts `off` values after the state g
Draw(g, off, i) == Mix(g.seed, g.pos + off + i)

\* np.random.choice(list, n)[i]
choice(list, g, off, i) == list[(Draw(g, off, i) % Len(list)) + 1]

\* np.random.uniform(0, hi, n)[i], in tenths: the lower limit left out
uniform_from_zero(lo, hi, g, off, i) == Draw(g, off, i) % (hi * 10)

\* np.random.uniform(lo, hi, n)[i], in tenths: a value of [lo, hi)
uniform(lo, hi, g, off, i) == lo * 10 + (Draw(g, off, i) % ((hi - lo) * 10))

\* np.random.uniform(lo, hi, n).round(1)[i], in tenths: a value of [lo, hi]
uniform_round(lo, hi, g, off, i) == lo * 10 + (Draw(g, off, i) % ((hi - lo) * 10 + 1))

\* np.random.randint(lo, hi): one value of lo..hi-1
randint(lo, hi, g, off, i) == lo + (Draw(g, off, i) % (hi - lo))

advance(g, n) == [g EXCEPT !.pos = @ + n]

n_records == 500

implementations == <<"Catalyst", "Goldilocks (ANZ)", "EWM", "Supernova">>
wricef_types    == <<"W", "R", "I", "C", "E", "F">>
complexities    == <<"Low", "Medium", "High", "Very High">>
priorities      == <<"1 - High", "2 - Medium", "3 - Low">>
stages          == <<"06 - Dev Completed", "04 - Dev in progress",
                     "16 - FS Review in Progress", "13 - Deferred",
                     "15 - No Development Required">>
process_areas   == <<"STS", "RTR", "MDM", "PTM", "PTP", "LEX", "OTC", "EWM">>

\* pd.date_range('2022-01-01', '2024-12-31'): the days of the window, 0 .. 1095
WindowDays == 365 + 365 + 366

\* one column's cell of row i (0-based) of the dashboard's sample data; g is
\* the generator state right after np.random.seed(42), blocks of n_records draws
\* are consumed in the order the dict literal lists the columns
Dash_sample_cell(g, c, i) ==
    LET n == n_records
        k == i + 1
    IN  CASE c = IMPL  -> Str(choice(implementations, g, 0, k))
          [] c = PROJ  -> Label("Project", i + 1)
          [] c = WTYPE -> Str(choice(wricef_types, g, n, k))
          [] c = CPLX  -> Str(choice(complexities, g, 2 * n, k))
          [] c = PRIO  -> Str(choice(priorities, g, 3 * n, k))
          [] c = STAGE -> Str(choice(stages, g, 4 * n, k))
          [] c = AREA  -> Str(choice(process_areas, g, 5 * n, k))
          [] c = ABAPF -> Num(uniform_round(10, 200, g, 6 * n, k))
          [] c = ABAPA -> Num(uniform_round(10, 200, g, 7 * n, k))
          [] c = PIF   -> Num(uniform_round(5, 100, g, 8 * n, k))
          [] c = PIA   -> Num(uniform_round(5, 100, g, 9 * n, k))
          [] c = FSD   -> Ts((Draw(g, 10 * n, k) % WindowDays) * TicksPerDay)
          [] c = DEVD  -> Ts((Draw(g, 11 * n, k) % WindowDays) * TicksPerDay)
          [] c = OWNER -> Label("Owner", randint(1, 20, g, 12 * n, k))
          [] c = LEAD  -> Label("Lead", randint(1, 15, g, 13 * n, k))
          [] c = INDEX -> Num(i)

\* the DataFrame the dashboard's create_sample_data builds from the generator
\* state g0 that np.random.seed(42) has just set
Dash_sample_frame ==
    LET g0 == np_random_seed(42)
    IN  DataFrame(DashCols,
            [k \in 1..n_records |->
                [c \in DashCols \cup {INDEX} |-> Dash_sample_cell(g0, c, k - 1)]])

\* create_sample_data without np.random.seed(42): the draws go on from the
\* generator state g of the call
Dash_create_sample_data_unseeded(g) ==
    [df |-> DataFrame(DashCols,
                [k \in 1..n_records |->
                    [c \in DashCols \cup {INDEX} |-> Dash_sample_cell(g, c, k - 1)]]),
     rng |-> advance(g, 14 * n_records)]

\* StreamlitWRICEFDashboard.create_sample_data: the new self.df and the
\* generator state it leaves; g is the generator state it is called in, which
\* np.random.seed(42) overwrites
Dash_create_sample_data(g) ==
    [df |-> Dash_sample_frame, rng |-> advance(np_random_seed(42), 14 * n_records)]

\* one column's cell of row i (0-based) of the analysis script's sample data;
\* the two date columns are pd.date_range(start, end, periods = n_records):
\* n_records evenly spaced timestamps, the first and the last on the bounds
Viz_sample_cell(g, c, i) ==
    LET n == n_records
        k == i + 1
    IN  CASE c = IMPL  -> Str(choice(implementations, g, 0, k))
          [] c = WTYPE -> Str(choice(wricef_types, g, n, k))
          [] c = CPLX  -> Str(choice(complexities, g, 2 * n, k))
          [] c = PRIO  -> Str(choice(priorities, g, 3 * n, k))
          [] c = STAGE -> Str(choice(stages, g, 4 * n, k))
          [] c = ABAPF -> Num(uniform(10, 200, g, 5 * n, k))
          [] c = ABAPA -> Num(uniform(10, 200, g, 6 * n, k))
          [] c = PIF   -> Num(uniform(5, 100, g, 7 * n, k))
          [] c = PIA   -> Num(uniform(5, 100, g, 8 * n, k))
          [] c \in {FSD, DEVD} ->
                Ts((i * (WindowDays - 1) * TicksPerDay) \div (n - 1))
          [] c = INDEX -> Num(i)

\* the DataFrame the script's create_sample_data builds from the generator
\* state g0 that np.random.seed(42) has just set
Viz_sample_frame ==
    LET g0 == np_random_seed(42)
    IN  DataFrame(VizCols,
            [k \in 1..n_records |->
                [c \in VizCols \cup {INDEX} |-> Viz_sample_cell(g0, c, k - 1)]])

\* the script's create_sample_data without np.random.seed(42)
Viz_create_sample_data_unseeded(g) ==
    [df |-> DataFrame(VizCols,
                [k \in 1..n_records |->
                    [c \in VizCols \cup {INDEX} |-> Viz_sample_cell(g, c, k - 1)]]),
     rng |-> advance(g, 9 * n_records)]

\* WRICEFDataVisualizer.create_sample_data: the new self.df and the generator
\* state it leaves; g is the generator state it is called in, which
\* np.random.seed(42) overwrites
Viz_create_sample_data(g) ==
    [df |-> Viz_sample_frame, rng |-> advance(np_random_seed(42), 9 * n_records)]

-----------------------------------------------------------------------------
(* The spreadsheets the model loads: up to MaxRows rows drawn from a small *)
(* palette, with all the columns or with one optional column absent.       *)

\* a spreadsheet row: the four filter fields, the planned date, the two ABAP
\* efforts and the stage vary, the other cells are fixed
SheetRow(i, w, c, p, d, f, a, s) ==
    (IMPL :> i) @@ (WTYPE :> w) @@ (CPLX :> c) @@ (PRIO :> p) @@ (FSD :> d) @@
    (ABAPF :> f) @@ (ABAPA :> a) @@ (STAGE :> s) @@
    (PROJ :> Str("P")) @@ (AREA :> Str("STS")) @@ (PIF :> Num(50)) @@
    (PIA :> Num(60)) @@ (DEVD :> d) @@ (OWNER :> Str("O")) @@ (LEAD :> Str("L"))

Palette ==
    { SheetRow(Str("Catalyst"), Str("W"), Str("Low"), Str("1 - High"),
               Ts(0), Num(100), Num(150), Str("06 - Dev Completed")),
      SheetRow(Str("EWM"), Str("R"), Str("High"), Str("2 - Medium"),
               Ts(2 * TicksPerDay - 1), Num(0), Num(50), Str("13 - Deferred")),
      SheetRow(Str("Catalyst"), Str("R"), Str("Low"), Str("2 - Medium"),
               NaT, Num(200), Num(100), Str("13 - Deferred")),
      SheetRow(NaN, Str("W"), Str("High"), Str("1 - High"),
               Ts(2 * TicksPerDay), Num(100), Num(100), Str("06 - Dev Completed")) }

\* rows with cells that are not clean: text in an effort cell, a negative
\* effort, a date typed as text or as a number, a date that is no date
RawPalette ==
    { SheetRow(Str("EWM"), Str("R"), Str("Low"), Str("2 - Medium"),
               Ts(TicksPerDay), Str("TBD"), NumStr(40), Str("13 - Deferred")),
      SheetRow(Str("Catalyst"), Str("W"), Str("High"), Str("1 - High"),
               DateStr(1), Num(0 - 5), NaN, Str("06 - Dev Completed")),
      SheetRow(Str("EWM"), Str("W"), Str("Low"), Str("1 - High"),
               Str("soon"), NaN, Str("n/a"), Str("13 - Deferred")),
      SheetRow(Str("Catalyst"), Str("R"), Str("High"), Str("2 - Medium"),
               Num(3), NumStr(10), Num(20), Str("06 - Dev Completed")) }

\* the column sets of the spreadsheets: complete, or one optional column absent
ColumnSets == {DashCols} \cup { DashCols \ {c} : c \in {STAGE, ABAPF, FSD} }

RECURSIVE SeqsUpTo(_, _)
SeqsUpTo(S, n) ==
    IF n = 0 THEN { <<>> }
    ELSE LET shorter == SeqsUpTo(S, n - 1)
         IN  shorter \cup { Append(q, x) : q \in { r \in shorter : Len(r) = n - 1 }, x \in S }

\* pd.read_excel of a sheet with these palette rows and these columns: the rows
\* get the index labels 0, 1, ...
Sheet(cols, palRows) ==
    DataFrame(cols, [k \in 1..Len(palRows) |->
                       [c \in cols \cup {INDEX} |->
                          IF c = INDEX THEN Num(k - 1) ELSE palRows[k][c]]])

\* the sheets of up to n rows
Sheets(n) == { Sheet(cols, q) : cols \in ColumnSets, q \in SeqsUpTo(Palette, n) }

\* the sheets of up to n rows, clean or not
RawSheets(n) ==
    { Sheet(cols, q) : cols \in ColumnSets, q \in SeqsUpTo(Palette \cup RawPalette, n) }

\* what pd.read_excel does with the input: it raises (no such file, not a
\* spreadsheet, unreadable sheet) or it returns the sheet's DataFrame
Unreadable == [kind |-> "unreadable"]
Readable(d) == [kind |-> "readable", data |-> d]
\* the dashboard with nothing uploaded: uploaded_file is None
NoUpload == [kind |-> "none"]

\* the files the analysis script may find at file_path
Files == {Unreadable} \cup { Readable(d) : d \in RawSheets(MaxRows) }

\* what the dashboard's file uploader may hold; an upload that lacks a column
\* or holds a cell that is not clean has at most one row (what the dashboard
\* does with either does not depend on the other rows)
Uploads ==
    {NoUpload, Unreadable}
        \cup { Readable(d) : d \in { x \in Sheets(MaxRows) : x.cols = DashCols } }
        \cup { Readable(d) : d \in { x \in Sheets(1) : x.cols # DashCols } }
        \cup { Readable(Sheet(DashCols, <<r>>)) : r \in RawPalette }

-----------------------------------------------------------------------------
(* Loader *)

\* load_data without the substitution: the error is printed and self.df stays None
Viz_load_data_no_fallback(f, g) ==
    IF f.kind = "readable"
    THEN [df |-> f.data, rng |-> g, out |-> <<"print: Data loaded successfully">>]
    ELSE [df |-> None, rng |-> g, out |-> <<"print: Error loading data">>]

\* WRICEFDataVisualizer.load_data, called in file f with the generator in
\* state g: the new self.df, the generator state and the messages printed.
\* Every Exception of pd.read_excel is caught and the sample data substituted.
Viz_load_data(f, g) ==
    IF f.kind = "readable"
    THEN [df |-> f.data, rng |-> g, out |-> <<"print: Data loaded successfully">>]
    ELSE LET s == Viz_create_sample_data(g)
         IN  [df |-> s.df, rng |-> s.rng,
              out |-> <<"print: Error loading data",
                        "print: Sample data created for demonstration">>]

\* StreamlitWRICEFDashboard.load_data(uploaded_file) on a new dashboard object
\* (self.df is None): the new self.df, the generator state, the messages shown
\* and the value returned
Dash_load_data(f, g) ==
    IF f.kind # "none"
    THEN IF f.kind = "readable"
         THEN [df |-> f.data, rng |-> g, out |-> <<"st.success: Data loaded successfully">>,
               result |-> TRUE]
         ELSE [df |-> None, rng |-> g, out |-> <<"st.error: Error loading data">>,
               result |-> FALSE]
    ELSE LET s == Dash_create_sample_data(g)
         IN  [df |-> s.df, rng |-> s.rng,
              out |-> <<"st.info: Using sample data for demonstration">>,
              result |-> TRUE]

-----------------------------------------------------------------------------
(* Preparer (analysis script only) *)

\* the dates kept as numbers: a timestamp becomes its count of time units
to_datetime_as_count(c) ==
    CASE c.t = "ts"      -> Num(c.v)
      [] c.t = "datestr" -> Num(c.v * TicksPerDay)
      [] c.t = "num"     -> Ts(c.v)
      [] OTHER           -> NaT

\* pd.to_datetime(cell, errors='coerce'): a timestamp stays, a date in text
\* becomes that day at midnight, a number is read as a count of time units, a
\* missing cell and an unparseable one become NaT
to_datetime(c) ==
    CASE c.t = "ts"      -> c
      [] c.t = "datestr" -> Ts(c.v * TicksPerDay)
      [] c.t = "num"     -> Ts(c.v)
      [] OTHER           -> NaT

\* pd.to_numeric with errors='coerce' and no fillna: what is not a number
\* stays missing
to_numeric_coerce(c) ==
    CASE c.t = "num"    -> c
      [] c.t = "numstr" -> Num(c.v)
      [] OTHER          -> NaN

\* pd.to_numeric(cell, errors='coerce') then fillna(0): a number stays,
\* negative or not, a number in text becomes that number, a missing cell and a
\* non-numeric one become 0
to_numeric_fillna(c) ==
    CASE c.t = "num"    -> c
      [] c.t = "numstr" -> Num(c.v)
      [] OTHER          -> Num(0)

\* the columns whose name contains 'Date'
date_columns(d) == d.cols \cap {FSD, DEVD}

effort_cols == {ABAPF, ABAPA, PIF, PIA}

\* WRICEFDataVisualizer.prepare_data
prepare_data(d) ==
    DataFrame(d.cols,
        [k \in 1..Len(d.rows) |->
            [c \in DOMAIN d.rows[k] |->
                IF c \in date_columns(d) THEN to_datetime(d.rows[k][c])
                ELSE IF c \in effort_cols \cap d.cols THEN to_numeric_fillna(d.rows[k][c])
                ELSE d.rows[k][c]]])

-----------------------------------------------------------------------------
(* Filter Engine (dashboard only) *)

ALL == Str("All")

SetMin(S) == CHOOSE x \in S : \A y \in S : x <= y
SetMax(S) == 0 - SetMin({ 0 - x : x \in S })

\* the elements of a finite set of integers, in ascending order
Ascending(S) ==
    [k \in 1..Cardinality(S) |-> CHOOSE x \in S : Cardinality({ y \in S : y < x }) = k - 1]

\* the cells of q that occur in no earlier position, in order
FirstSeen(q) ==
    LET firsts == { SetMin({ i \in 1..Len(q) : q[i] = x }) : x \in { q[i] : i \in 1..Len(q) } }
        order  == Ascending(firsts)
    IN  [k \in 1..Len(order) |-> q[order[k]]]

\* list(df[c].unique()): the distinct cells of a column in order of first
\* appearance, a missing value included (once)
unique(d, c) == FirstSeen(Column(d, c))

\* the timestamps of a column: what min() and max() range over (they skip NaT)
Stamps(d, c) == { d.rows[i][c].v : i \in { k \in 1..Len(d.rows) : d.rows[k][c].t = "ts" } }

\* [df[FSD].min().date(), df[FSD].max().date()]: the default and the limits of
\* the date-range input
default_date_range(d) ==
    <<SetMin(Stamps(d, FSD)) \div TicksPerDay, SetMax(Stamps(d, FSD)) \div TicksPerDay>>

\* filtered_df[filtered_df[c] == selected]
FilterEq(rows, c, selected) == SelectSeq(rows, LAMBDA r : PyEq(r[c], selected))

\* one categorical filter: skipped when the selection is 'All'
FilterSelected(rows, c, selected) ==
    IF ~PyEq(selected, ALL) THEN FilterEq(rows, c, selected) ELSE rows

\* the date mask comparing the timestamps themselves with the two dates at
\* midnight, so the hours of the end date fall outside
InDateRange_midnight(cell, start_date, end_date) ==
    /\ cell.t = "ts"
    /\ cell.v >= start_date * TicksPerDay
    /\ cell.v <= end_date * TicksPerDay

\* the date mask: .dt.date >= start_date and .dt.date <= end_date; a NaT
\* compares False both times
InDateRange(cell, start_date, end_date) ==
    /\ cell.t = "ts"
    /\ DateOf(cell) >= start_date
    /\ DateOf(cell) <= end_date

\* the date filter returning its rows latest first
FilterDates_latest_first(rows, date_range) ==
    IF Len(date_range) = 2
    THEN LET kept == SelectSeq(rows, LAMBDA r : InDateRange(r[FSD], date_range[1],
                                                            date_range[2]))
         IN  [j \in 1..Len(kept) |-> kept[Len(kept) + 1 - j]]
    ELSE rows

\* the date filter taking a lone date as the start of an open range
FilterDates_open_range(rows, date_range) ==
    IF Len(date_range) = 0
    THEN rows
    ELSE SelectSeq(rows, LAMBDA r : InDateRange(r[FSD], date_range[1],
                                                date_range[Len(date_range)]))

\* the date filter: applied only when the input holds exactly two dates
FilterDates(rows, date_range) ==
    IF Len(date_range) = 2
    THEN SelectSeq(rows, LAMBDA r : InDateRange(r[FSD], date_range[1], date_range[2]))
    ELSE rows

\* the filters each narrowing self.df instead of filtered_df: the last one wins
ApplyFilters_last_wins(d, selected_impl, selected_wricef, selected_complexity, selected_priority, date_range) ==
    LET f0 == d.rows
        f1 == FilterSelected(f0, IMPL, selected_impl)
        f2 == FilterSelected(f0, WTYPE, selected_wricef)
        f3 == FilterSelected(f0, CPLX, selected_complexity)
        f4 == FilterSelected(f0, PRIO, selected_priority)
        f5 == FilterDates(f0, date_range)
    IN  DataFrame(d.cols, f5)

\* the priority filter narrowing self.df instead of filtered_df
ApplyFilters_priority_from_df(d, selected_impl, selected_wricef, selected_complexity, selected_priority, date_range) ==
    LET f0 == d.rows
        f1 == FilterSelected(f0, IMPL, selected_impl)
        f2 == FilterSelected(f1, WTYPE, selected_wricef)
        f3 == FilterSelected(f2, CPLX, selected_complexity)
        f4 == FilterSelected(f0, PRIO, selected_priority)
        f5 == FilterDates(f4, date_range)
    IN  DataFrame(d.cols, f5)

\* "Apply filters": filtered_df = self.df.copy(), narrowed by each filter in turn
ApplyFilters(d, selected_impl, selected_wricef, selected_complexity, selected_priority, date_range) ==
    LET f0 == d.rows
        f1 == FilterSelected(f0, IMPL, selected_impl)
        f2 == FilterSelected(f1, WTYPE, selected_wricef)
        f3 == FilterSelected(f2, CPLX, selected_complexity)
        f4 == FilterSelected(f3, PRIO, selected_priority)
        f5 == FilterDates(f4, date_range)
    IN  DataFrame(d.cols, f5)

\* the first exception the sidebar's widgets raise on d, "none" if none: a
\* column read by name that is absent (KeyError), a date column mixing
\* timestamps, numbers and text, which min() cannot order (TypeError), or one
\* whose min() is not a timestamp and has no date(): all missing, all text or
\* all numbers (AttributeError)
FilterWidgetsError(d) ==
    IF {IMPL, WTYPE, CPLX, PRIO, FSD} \subseteq d.cols
    THEN LET kinds == { d.rows[i][FSD].t : i \in 1..Len(d.rows) } \ {"nan", "nat", "none"}
         IN  IF kinds = {"ts"} THEN "none"
             ELSE IF kinds \subseteq {"str", "numstr", "datestr"} \/ kinds = {"num"}
                  THEN "AttributeError"
                  ELSE "TypeError"
    ELSE "KeyError"

\* the options and limits the sidebar offers on d
Sidebar(d) ==
    [implementations |-> <<ALL>> \o unique(d, IMPL),
     wricef_types    |-> <<ALL>> \o unique(d, WTYPE),
     complexities    |-> <<ALL>> \o unique(d, CPLX),
     priorities      |-> <<ALL>> \o unique(d, PRIO),
     min_value       |-> default_date_range(d)[1],
     max_value       |-> default_date_range(d)[2]]

NoSidebar == [implementations |-> <<>>, wricef_types |-> <<>>, complexities |-> <<>>,
              priorities |-> <<>>, min_value |-> 0, max_value |-> 0 - 1]

\* the widgets' state of a new session: every selectbox on its first option,
\* the date input on its default
NewWidgets == [selected_impl |-> ALL, selected_wricef |-> ALL,
               selected_complexity |-> ALL, selected_priority |-> ALL,
               date_range |-> [set |-> FALSE]]

\* what st.sidebar.date_input returns: the dates the user left in it, or the
\* default value while the user has not touched it
date_input(w, d) == IF w.date_range.set THEN w.date_range.v ELSE default_date_range(d)

\* StreamlitWRICEFDashboard.create_filters on self.df = d with the widgets in
\* state w: the DataFrame returned (self.df itself is left as it is)
create_filters(d, w) ==
    ApplyFilters(d, w.selected_impl, w.selected_wricef, w.selected_complexity,
                 w.selected_priority, date_input(w, d))

\* create_filters narrowing self.df itself instead of a copy
self_df_narrowed(d, w) == create_filters(d, w)

\* self.df = d once create_filters has returned: the filters narrow the local
\* filtered_df, taken as self.df.copy(), and self.df is never assigned
self_df_after_create_filters(d, w) == d

-----------------------------------------------------------------------------
(* Aggregator / Insight Generator *)

\* the strings of the model in Python's string order
StrOrder == <<"04 - Dev in progress", "06 - Dev Completed", "1 - High", "13 - Deferred",
              "15 - No Development Required", "16 - FS Review in Progress",
              "2 - Medium", "3 - Low", "All", "C", "Catalyst", "E", "EWM", "F",
              "Goldilocks (ANZ)", "High", "I", "LEX", "Low", "MDM", "Medium", "OTC",
              "PTM", "PTP", "R", "RTR", "STS", "Supernova", "Very High", "W">>

Rank(c) == CHOOSE i \in 1..Len(StrOrder) : StrOrder[i] = c.v

\* the cells of a column that are not missing, in row order
NonNull(d, c) == SelectSeq(Column(d, c), LAMBDA x : ~IsNull(x))

\* how many rows hold the value x in column c
CountOf(d, c, x) == Cardinality({ i \in 1..Len(d.rows) : d.rows[i][c] = x })

\* the distinct values of column c in order of first appearance (values), how
\* often each occurs (counts) and the largest of these counts (top)
Tally(d, c) ==
    LET u == FirstSeen(NonNull(d, c))
        n == [i \in 1..Len(u) |-> CountOf(d, c, u[i])]
    IN  [values |-> u, counts |-> n, top |-> SetMax({ n[i] : i \in 1..Len(u) })]

\* mode()[0] had mode() listed the most frequent values in descending order
mode0_greatest(d, c) ==
    LET t    == Tally(d, c)
        tops == { t.values[i] : i \in { k \in 1..Len(t.values) : t.counts[k] = t.top } }
    IN  CHOOSE x \in tops : \A y \in tops : Rank(x) >= Rank(y)

\* df[c].mode()[0]: mode() lists the most frequent values in ascending order,
\* so [0] is the least of them
mode0(d, c) ==
    LET t    == Tally(d, c)
        tops == { t.values[i] : i \in { k \in 1..Len(t.values) : t.counts[k] = t.top } }
    IN  CHOOSE x \in tops : \A y \in tops : Rank(x) <= Rank(y)

\* df[c].value_counts().index[0]: value_counts() sorts the distinct values by
\* count, largest first, values of equal count staying in order of first
\* appearance, so index[0] is the first-seen of the most frequent values
top_value(d, c) ==
    LET t == Tally(d, c)
    IN  t.values[SetMin({ k \in 1..Len(t.values) : t.counts[k] = t.top })]

\* the numbers of a column: what sum() and mean() range over (they skip NaN)
Numbers(d, c) == SelectSeq(Column(d, c), LAMBDA x : x.t = "num")

RECURSIVE SumRange(_, _, _)
\* q[lo].v + ... + q[hi].v, by halves
SumRange(q, lo, hi) ==
    IF lo > hi THEN 0
    ELSE IF lo = hi THEN q[lo].v
    ELSE LET mid == (lo + hi) \div 2
         IN  SumRange(q, lo, mid) + SumRange(q, mid + 1, hi)

\* Series.sum() over the numbers of a column
SumCells(q) == SumRange(q, 1, Len(q))

\* a column holding strings has dtype object: its mean() and its division raise
HasText(d, c) == \E i \in 1..Len(d.rows) : d.rows[i][c].t \in {"str", "numstr", "datestr"}

Ok(stmts) == [err |-> "none", stmts |-> stmts]
Raise(e)  == [err |-> e, stmts |-> <<>>]

\* "Total WRICEF items"
TotalStmt(d) == Ok(<<[k |-> "total", total |-> Length(d)]>>)

\* "Most common WRICEF type": mode()[0], then value_counts()[that value]
ModeStmt(d, c, kind) ==
    IF c \notin d.cols THEN Raise("KeyError")
    ELSE IF NonNull(d, c) = <<>> THEN Raise("KeyError")
    ELSE LET most_common == mode0(d, c)
         IN  Ok(<<[k |-> kind, value |-> most_common,
                   count |-> CountOf(d, c, most_common), total |-> Length(d)]>>)

\* "Largest implementation", "Most common complexity / priority / stage":
\* value_counts().index[0] and value_counts().iloc[0]
TopStmt(d, c, kind) ==
    IF c \notin d.cols THEN Raise("KeyError")
    ELSE IF NonNull(d, c) = <<>> THEN Raise("IndexError")
    ELSE LET first == top_value(d, c)
         IN  Ok(<<[k |-> kind, value |-> first,
                   count |-> CountOf(d, c, first), total |-> Length(d)]>>)

\* "Average / Total ABAP effort forecast": the mean as sum over count
EffortStmts(d) ==
    IF ABAPF \notin d.cols THEN Raise("KeyError")
    ELSE IF HasText(d, ABAPF) THEN Raise("TypeError")
    ELSE Ok(<<[k |-> "abap_mean", sum |-> SumCells(Numbers(d, ABAPF)),
               n |-> Len(Numbers(d, ABAPF))],
              [k |-> "abap_total", sum |-> SumCells(Numbers(d, ABAPF))]>>)

\* the rows whose actual/forecast quotient is a number or an infinity, so that
\* mean() counts it: both cells numbers, and not 0/0 (which is NaN)
RatioRows(d) ==
    SelectSeq(d.rows, LAMBDA r : /\ r[ABAPA].t = "num"
                                 /\ r[ABAPF].t = "num"
                                 /\ ~(r[ABAPA].v = 0 /\ r[ABAPF].v = 0))

\* "Average effort efficiency": the mean of actual/forecast, given as the
\* quotients' terms
EfficiencyStmt(d) ==
    IF {ABAPA, ABAPF} \subseteq d.cols
    THEN IF HasText(d, ABAPA) \/ HasText(d, ABAPF) THEN Raise("TypeError")
         ELSE LET rr == RatioRows(d)
              IN  Ok(<<[k |-> "efficiency",
                        terms |-> [i \in 1..Len(rr) |-> <<rr[i][ABAPA].v, rr[i][ABAPF].v>>]]>>)
    ELSE Raise("KeyError")

RECURSIVE InOrder(_)
\* the statements of a sequence of steps, or the first exception among them
InOrder(steps) ==
    IF steps = <<>> THEN Ok(<<>>)
    ELSE IF Head(steps).err # "none" THEN Raise(Head(steps).err)
    ELSE LET rest == InOrder(Tail(steps))
         IN  IF rest.err # "none" THEN rest ELSE Ok(Head(steps).stmts \o rest.stmts)

\* generate_insights with the effort statements after the complexity statement
Viz_generate_insights_effort_late(d) ==
    InOrder(<<TotalStmt(d),
              ModeStmt(d, WTYPE, "wricef"),
              TopStmt(d, IMPL, "implementation"),
              TopStmt(d, CPLX, "complexity"),
              IF ABAPF \in d.cols THEN EffortStmts(d) ELSE Ok(<<>>),
              TopStmt(d, PRIO, "priority"),
              TopStmt(d, STAGE, "stage")>>)

\* WRICEFDataVisualizer.generate_insights on self.df = d
Viz_generate_insights(d) ==
    InOrder(<<TotalStmt(d),
              ModeStmt(d, WTYPE, "wricef"),
              TopStmt(d, IMPL, "implementation"),
              IF ABAPF \in d.cols THEN EffortStmts(d) ELSE Ok(<<>>),
              TopStmt(d, CPLX, "complexity"),
              TopStmt(d, PRIO, "priority"),
              TopStmt(d, STAGE, "stage")>>)

\* StreamlitWRICEFDashboard.generate_insights on self.df = d
Dash_generate_insights(d) ==
    InOrder(<<TotalStmt(d),
              ModeStmt(d, WTYPE, "wricef"),
              TopStmt(d, IMPL, "implementation"),
              EffortStmts(d),
              TopStmt(d, CPLX, "complexity"),
              TopStmt(d, PRIO, "priority"),
              EfficiencyStmt(d)>>)

-----------------------------------------------------------------------------
(* Renderer: the charts are drawn by the plotting libraries; the model     *)
(* keeps which columns each chart operation reads by name, and whether the *)
(* read is behind a check that the column is present.                      *)

\* the exception a chart operation raises for reading an absent column among
\* `needed`, "none" if all are present
Reads(d, needed, e) == IF needed \subseteq d.cols THEN "none" ELSE e

\* WRICEFDataVisualizer.create_dashboard_plots: the figures it returns
static_plots(d) ==
    {"wricef_distribution", "complexity_heatmap", "effort_analysis"}
        \cup (IF FSD \in d.cols THEN {"time_series"} ELSE {})

\* the outcomes of create_dashboard_plots on d: a KeyError for an absent column
\* it reads unchecked; on a DataFrame without rows the plotting libraries may
\* draw empty charts or raise
create_dashboard_plots(d) ==
    IF Reads(d, {WTYPE, IMPL, CPLX, PRIO, STAGE}, "KeyError") # "none"
    THEN {"KeyError"}
    ELSE IF Length(d) = 0 THEN {"none", "ValueError"} ELSE {"none"}

\* WRICEFDataVisualizer.create_interactive_plots: the figures it returns
interactive_plots(d) ==
    {"sunburst", "treemap"}
        \cup (IF FSD \in d.cols THEN {"timeline"} ELSE {})
        \cup (IF {ABAPF, ABAPA, PIF} \subseteq d.cols THEN {"effort_3d"} ELSE {})

\* the outcomes of create_interactive_plots on d
create_interactive_plots(d) ==
    LET needed == {IMPL, WTYPE, CPLX}
                    \cup (IF FSD \in d.cols THEN {PRIO, STAGE} ELSE {})
    IN  IF Reads(d, needed, "ValueError") # "none" THEN {"ValueError"}
        ELSE IF Length(d) = 0 THEN {"none", "ValueError"} ELSE {"none"}

Pages == {"Data Overview", "Distribution Analysis", "Effort Analysis",
          "Timeline Analysis", "Advanced Analytics", "Correlation Analysis",
          "Key Insights"}

\* the columns each chart page of the dashboard reads, none of them checked
PageReads(p) ==
    CASE p = "Data Overview"         -> {IMPL, WTYPE, ABAPF}
      [] p = "Distribution Analysis" -> {WTYPE, IMPL, CPLX}
      [] p = "Effort Analysis"       -> {ABAPF, ABAPA, IMPL, WTYPE, CPLX}
      [] p = "Timeline Analysis"     -> {FSD, IMPL, WTYPE, ABAPF, CPLX, PRIO, STAGE, PROJ}
      [] p = "Advanced Analytics"    -> {IMPL, WTYPE, CPLX, ABAPF, ABAPA, PIF, PRIO}
      [] p = "Correlation Analysis"  -> {IMPL, CPLX}

\* the method main calls for page p
PageMethod(p) ==
    CASE p = "Data Overview"         -> "data_overview"
      [] p = "Distribution Analysis" -> "create_distribution_charts"
      [] p = "Effort Analysis"       -> "create_effort_analysis"
      [] p = "Timeline Analysis"     -> "create_timeline_analysis"
      [] p = "Advanced Analytics"    -> "create_advanced_visualizations"
      [] p = "Correlation Analysis"  -> "create_heatmaps"
      [] p = "Key Insights"          -> "generate_insights"

\* the outcome of rendering page p on self.df = d: the exception and the
\* statements displayed
render_page(d, p) ==
    IF p = "Key Insights" THEN Dash_generate_insights(d)
    ELSE [err |-> Reads(d, PageReads(p), "KeyError"), stmts |-> <<>>]

-----------------------------------------------------------------------------
(* Initial state: the process has started, main() has not run yet *)

Init ==
    /\ app \in {"script", "dashboard"}
    /\ file \in IF app = "script" THEN Files ELSE Uploads
    /\ pc = "start"
    /\ df = None
    /\ rng = np_random_seed(0)
    /\ out = <<>>
    /\ err = "none"
    /\ widgets = NewWidgets
    /\ sidebar = NoSidebar
    /\ ret = None
    /\ where = "none"
    /\ insights = <<>>
    /\ constructed = FALSE
    /\ status = None

-----------------------------------------------------------------------------
(* The analysis script: wricef_visualizer.main *)

\* WRICEFDataVisualizer.__init__, first half: self.load_data()
V_load_data ==
    /\ app = "script" /\ pc = "start"
    /\ LET r == Viz_load_data(file, rng)
       IN  /\ df' = r.df
           /\ rng' = r.rng
           /\ out' = out \o r.out
    /\ pc' = "loaded"
    /\ constructed' = TRUE
    /\ UNCHANGED <<status, app, file, err, widgets, sidebar, ret, where, insights>>

\* WRICEFDataVisualizer.__init__, second half: self.prepare_data()
V_prepare_data ==
    /\ app = "script" /\ pc = "loaded"
    /\ df' = prepare_data(df)
    /\ pc' = "prepared"
    /\ UNCHANGED <<status, app, file, rng, out, err, widgets, sidebar, ret, where, insights,
                   constructed>>

\* main: static_plots = visualizer.create_dashboard_plots()
V_create_dashboard_plots ==
    /\ app = "script" /\ pc = "prepared"
    /\ \E e \in create_dashboard_plots(df) :
          /\ err' = e
          /\ where' = IF e = "none" THEN "none" ELSE "create_dashboard_plots"
          /\ pc' = IF e = "none" THEN "static_plots" ELSE "crashed"
    /\ out' = Append(out, "print: Generating static plots...")
    /\ UNCHANGED <<status, app, file, df, rng, widgets, sidebar, ret, insights, constructed>>

\* main: interactive_plots = visualizer.create_interactive_plots()
V_create_interactive_plots ==
    /\ app = "script" /\ pc = "static_plots"
    /\ \E e \in create_interactive_plots(df) :
          /\ err' = e
          /\ where' = IF e = "none" THEN "none" ELSE "create_interactive_plots"
          /\ pc' = IF e = "none" THEN "interactive_plots" ELSE "crashed"
    /\ out' = Append(out, "print: Generating interactive plots...")
    /\ UNCHANGED <<status, app, file, df, rng, widgets, sidebar, ret, insights, constructed>>

\* main: insights = visualizer.generate_insights()
V_generate_insights ==
    /\ app = "script" /\ pc = "interactive_plots"
    /\ LET r == Viz_generate_insights(df)
       IN  /\ err' = r.err
           /\ where' = IF r.err = "none" THEN "none" ELSE "generate_insights"
           /\ insights' = r.stmts
           /\ pc' = IF r.err = "none" THEN "insights" ELSE "crashed"
    /\ UNCHANGED <<status, app, file, df, rng, out, widgets, sidebar, ret, constructed>>

\* main: print the insights, save every figure, return
V_save ==
    /\ app = "script" /\ pc = "insights"
    /\ out' = out \o <<"print: KEY INSIGHTS", "print: Analysis complete">>
    /\ pc' = "done"
    /\ UNCHANGED <<status, app, file, df, rng, err, widgets, sidebar, ret, where, insights,
                   constructed>>

-----------------------------------------------------------------------------
(* The dashboard: streamlit_dashboard.main.  Streamlit runs main() once    *)
(* when the session opens and again, from the top, each time the user      *)
(* changes a widget; the widgets keep their state between the runs.        *)

\* main: dashboard = StreamlitWRICEFDashboard(); dashboard.load_data(uploaded_file)
D_load_data ==
    /\ app = "dashboard" /\ pc = "start"
    /\ LET r == Dash_load_data(file, rng)
       IN  /\ df' = r.df
           /\ rng' = r.rng
           /\ out' = out \o r.out
           /\ pc' = IF r.result THEN "loaded" ELSE "end"
           /\ constructed' = (constructed \/ r.result)
    /\ UNCHANGED <<status, app, file, err, widgets, sidebar, ret, where, insights>>

\* main: the call dashboard.create_filters(), up to its return
D_create_filters ==
    /\ app = "dashboard" /\ pc = "loaded"
    /\ LET e == FilterWidgetsError(df)
       IN  IF e # "none"
           THEN /\ err' = e
                /\ where' = "create_filters"
                /\ pc' = "crashed"
                /\ UNCHANGED <<df, sidebar, ret, out>>
           ELSE /\ sidebar' = Sidebar(df)
                /\ ret' = create_filters(df, widgets)
                /\ df' = self_df_after_create_filters(df, widgets)
                /\ out' = Append(out, "st.sidebar.write: Filtered records")
                /\ pc' = "filtered"
                /\ UNCHANGED <<err, where>>
    /\ UNCHANGED <<status, app, file, rng, widgets, insights, constructed>>

\* main: dashboard.df = <the DataFrame create_filters returned>
D_assign ==
    /\ app = "dashboard" /\ pc = "filtered"
    /\ df' = ret
    /\ ret' = None
    /\ pc' = "view"
    /\ UNCHANGED <<status, app, file, rng, out, err, widgets, sidebar, where, insights,
                   constructed>>

\* main: the page selectbox and the selected page's method
D_page ==
    /\ app = "dashboard" /\ pc = "view"
    /\ \E p \in Pages :
          LET r == render_page(df, p)
          IN  /\ err' = r.err
              /\ where' = IF r.err = "none" THEN "none" ELSE PageMethod(p)
              /\ insights' = r.stmts
              /\ pc' = IF r.err = "none" THEN "end" ELSE "crashed"
    /\ UNCHANGED <<status, app, file, df, rng, out, widgets, sidebar, ret, constructed>>

\* a run of main() is over (it returned or raised) and the session may go on
RunOver == app = "dashboard" /\ pc \in {"end", "crashed"}

\* Streamlit starts main() again: a new dashboard object, a cleared page
Rerun ==
    /\ pc' = "start"
    /\ df' = None
    /\ out' = <<>>
    /\ err' = "none"
    /\ sidebar' = NoSidebar
    /\ ret' = None
    /\ where' = "none"
    /\ insights' = <<>>
    /\ UNCHANGED <<status, app, file, rng, constructed>>

\* the positions of the options the user picks in a selectbox
Picks(options) == { i \in 1..Len(options) : i <= MaxPick + 1 }

\* the user picks another option of one of the four selectboxes
U_selectbox ==
    /\ RunOver
    /\ \/ \E i \in Picks(sidebar.implementations) :
             widgets' = [widgets EXCEPT !.selected_impl = sidebar.implementations[i]]
       \/ \E i \in Picks(sidebar.wricef_types) :
             widgets' = [widgets EXCEPT !.selected_wricef = sidebar.wricef_types[i]]
       \/ \E i \in Picks(sidebar.complexities) :
             widgets' = [widgets EXCEPT !.selected_complexity = sidebar.complexities[i]]
       \/ \E i \in Picks(sidebar.priorities) :
             widgets' = [widgets EXCEPT !.selected_priority = sidebar.priorities[i]]
    /\ widgets' # widgets
    /\ Rerun

\* the days the user picks: the two limits of the input
PickDays(sb) == {sb.min_value, sb.max_value}

\* the dates the date-range input can hold: up to MaxDateBounds dates between
\* min_value and max_value, in order
DateInputs(sb) ==
    { q \in SeqsUpTo(PickDays(sb), MaxDateBounds) :
        \A i \in 1..Len(q) - 1 : q[i] <= q[i + 1] }

\* the user edits the date-range input
U_date_input ==
    /\ RunOver
    /\ sidebar # NoSidebar
    /\ \E q \in DateInputs(sidebar) :
          widgets' = [widgets EXCEPT !.date_range = [set |-> TRUE, v |-> q]]
    /\ widgets' # widgets
    /\ Rerun

\* the user changes the page or asks for a rerun: no filter widget changes
U_rerun ==
    /\ RunOver
    /\ widgets' = widgets
    /\ Rerun

Next ==
    \/ V_load_data
    \/ V_prepare_data
    \/ V_create_dashboard_plots
    \/ V_create_interactive_plots
    \/ V_generate_insights
    \/ V_save
    \/ D_load_data
    \/ D_create_filters
    \/ D_assign
    \/ D_page
    \/ U_selectbox
    \/ U_date_input
    \/ U_rerun

Spec == Init /\ [][Next]_vars

-----------------------------------------------------------------------------
(* Loader: properties *)

\* self.df holds a DataFrame (it is not None)
HasFrame == df # None

\* load_data has run in this run of main on an input that pd.read_excel rejects
ParseFailed == file.kind = "unreadable" /\ pc # "start"

\* the Dataset of the seeded generator, as each application builds it
SampleOf(a) == IF a = "script" THEN Viz_sample_frame ELSE Dash_sample_frame

-----------------------------------------------------------------------------
(* Aggregator: properties *)

\* C2: generate_insights, in both variants, does not raise on a Dataset with 0
\* records (all columns present): there is no state in which it has raised on
\* one
C2_NoRaiseOnEmpty ==
    ~ /\ where = "generate_insights"
      /\ HasFrame
      /\ Length(df) = 0
      /\ df.cols = DashCols

\* C3: no aggregate or chart operation raises on a Dataset with records that
\* lacks an optional column
C3_AbsentColumnTolerated ==
    ~ /\ pc = "crashed"
      /\ err \in {"KeyError", "ValueError"}
      /\ HasFrame
      /\ Length(df) > 0
      /\ df.cols # DashCols

-----------------------------------------------------------------------------
(* Filter engine: properties.  They are stated on the state in which       *)
(* create_filters has just returned: df is the Dataset it was called on,   *)
(* ret the DataFrame it returned, widgets the filter parameters.           *)

\* create_filters has returned in this run
FilterRan == app = "dashboard" /\ pc = "filtered"

\* the date-range parameter of this run
DateParam == date_input(widgets, df)

\* a categorical parameter admits a value: it is 'All', or the value equals it
\* (a missing value equals nothing)
Admits(selection, cell) ==
    \/ selection = ALL
    \/ cell \notin {NaN, NaT, None} /\ cell = selection

\* the four categorical constraints on a record
CategoriesAdmit(r) ==
    /\ Admits(widgets.selected_impl, r[IMPL])
    /\ Admits(widgets.selected_wricef, r[WTYPE])
    /\ Admits(widgets.selected_complexity, r[CPLX])
    /\ Admits(widgets.selected_priority, r[PRIO])

\* the record has a planned delivery date and its calendar day lies between
\* the days first and last, whatever its time of day
DayWithin(r, first, last) ==
    /\ r[FSD].t = "ts"
    /\ first * TicksPerDay <= r[FSD].v
    /\ r[FSD].v < (last + 1) * TicksPerDay

\* the positions in df of the records returned, read off their index labels
KeptPositions == { ret.rows[j][INDEX].v + 1 : j \in 1..Len(ret.rows) }

\* every record returned is, field for field, the record of df at its label,
\* and no record is returned twice
ReturnsRecordsOfDf ==
    /\ \A j \in 1..Len(ret.rows) :
          /\ ret.rows[j][INDEX].v + 1 \in 1..Len(df.rows)
          /\ ret.rows[j] = df.rows[ret.rows[j][INDEX].v + 1]
    /\ Cardinality(KeptPositions) = Len(ret.rows)

\* C4: with a two-date range, the records returned are exactly the records of
\* the Dataset that satisfy all five constraints at once: each categorical
\* parameter is 'All' or equal to the record's value, and the record's planned
\* delivery day lies in the range
C4_ExactlyTheFiveConstraints ==
    (FilterRan /\ Len(DateParam) = 2) =>
        /\ ReturnsRecordsOfDf
        /\ \A i \in 1..Len(df.rows) :
              (i \in KeptPositions) <=>
                  /\ CategoriesAdmit(df.rows[i])
                  /\ DayWithin(df.rows[i], DateParam[1], DateParam[2])

\* two categorical constraints and a narrowed date range are active, and the
\* result is a non-empty proper part of the Dataset
C4_Witness ==
    /\ FilterRan
    /\ widgets.selected_wricef # ALL
    /\ widgets.selected_priority # ALL
    /\ widgets.date_range.set /\ Len(DateParam) = 2
    /\ DateParam # default_date_range(df)
    /\ Len(ret.rows) > 0
    /\ Len(ret.rows) < Len(df.rows)

\* C5: whatever the parameters, the result has the columns of the Dataset,
\* every record of it is an unaltered record of the Dataset, and the records
\* keep the relative order they have in the Dataset
C5_SubsetInOrder ==
    FilterRan =>
        /\ ret.cols = df.cols
        /\ ReturnsRecordsOfDf
        /\ \A j \in 1..Len(ret.rows) - 1 :
              ret.rows[j][INDEX].v < ret.rows[j + 1][INDEX].v

\* an active date range has dropped records and left at least two
C5_Witness ==
    /\ FilterRan
    /\ Len(DateParam) = 2
    /\ Len(ret.rows) >= 2
    /\ Len(ret.rows) < Len(df.rows)

\* C6: with every categorical parameter 'All' and the date range at its
\* default, the Dataset's earliest to latest planned date, the result equals
\* the Dataset, records without a planned date included
C6_IdentityAtDefaults ==
    ( /\ FilterRan
      /\ widgets.selected_impl = ALL /\ widgets.selected_wricef = ALL
      /\ widgets.selected_complexity = ALL /\ widgets.selected_priority = ALL
      /\ DateParam = default_date_range(df) )
    => ret = df

\* C7: with a two-date range [start, end], every record returned has its
\* planned delivery day in start..end, and every record of the Dataset that
\* meets the categorical constraints and falls on the start or the end day is
\* returned whatever its time of day
C7_DateBoundsInclusive ==
    (FilterRan /\ Len(DateParam) = 2) =>
        LET start == DateParam[1]
            end   == DateParam[2]
        IN  /\ \A j \in 1..Len(ret.rows) :
                  /\ ret.rows[j][FSD].t = "ts"
                  /\ start <= ret.rows[j][FSD].v \div TicksPerDay
                  /\ ret.rows[j][FSD].v \div TicksPerDay <= end
            /\ \A i \in 1..Len(df.rows) :
                  ( /\ df.rows[i][FSD].t = "ts"
                    /\ df.rows[i][FSD].v \div TicksPerDay \in {start, end}
                    /\ start <= end
                    /\ CategoriesAdmit(df.rows[i]) )
                  => i \in KeptPositions

\* a record dated on the end day, later than midnight, has been returned while
\* a later record has been dropped
C7_Witness ==
    /\ FilterRan
    /\ Len(DateParam) = 2
    /\ \E j \in 1..Len(ret.rows) :
          /\ ret.rows[j][FSD].v \div TicksPerDay = DateParam[2]
          /\ ret.rows[j][FSD].v % TicksPerDay # 0
    /\ \E i \in 1..Len(df.rows) :
          /\ df.rows[i][FSD].t = "ts"
          /\ df.rows[i][FSD].v \div TicksPerDay > DateParam[2]

\* C8: when the date range does not hold exactly two dates, no date constraint
\* applies: the records returned are exactly those that satisfy the four
\* categorical constraints
C8_NoDateFilterUnlessTwoBounds ==
    (FilterRan /\ Len(DateParam) # 2) =>
        /\ ReturnsRecordsOfDf
        /\ \A i \in 1..Len(df.rows) :
              (i \in KeptPositions) <=> CategoriesAdmit(df.rows[i])

\* the range holds one date, a categorical constraint has dropped a record,
\* and a record dated before that date has been returned
C8_Witness ==
    /\ FilterRan
    /\ Len(DateParam) = 1
    /\ Len(ret.rows) < Len(df.rows)
    /\ \E j \in 1..Len(ret.rows) :
          /\ ret.rows[j][FSD].t = "ts"
          /\ ret.rows[j][FSD].v \div TicksPerDay < DateParam[1]

\* C9: a call of create_filters leaves self.df as it was: the filters work on a
\* copy, and only the caller's assignment replaces the dashboard's DataFrame
C9_CreateFiltersKeepsSelfDf ==
    [][(app = "dashboard" /\ pc = "loaded") => df' = df]_vars

\* create_filters has returned fewer records than self.df still holds
C9_Witness ==
    /\ FilterRan
    /\ HasFrame
    /\ Len(ret.rows) < Len(df.rows)
    /\ ret # df

-----------------------------------------------------------------------------
(* Session: properties *)

\* the Dataset the session's input stands for: the uploaded sheet, or the
\* generator's Dataset when nothing is uploaded
SessionDataset == IF file.kind = "none" THEN Dash_sample_frame ELSE file.data

\* the date range the widgets hold now, on the Dataset d
CurrentRange(d) ==
    IF widgets.date_range.set
    THEN widgets.date_range.v
    ELSE <<SetMin({ d.rows[i][FSD].v \div TicksPerDay :
                      i \in { k \in 1..Len(d.rows) : d.rows[k][FSD].t = "ts" } }),
           SetMax({ d.rows[i][FSD].v \div TicksPerDay :
                      i \in { k \in 1..Len(d.rows) : d.rows[k][FSD].t = "ts" } })>>

\* v is the filter of the Dataset d under the parameters the widgets hold now
IsViewOf(v, d) ==
    LET kept == { v.rows[j][INDEX].v + 1 : j \in 1..Len(v.rows) }
    IN  /\ v.cols = d.cols
        /\ \A j \in 1..Len(v.rows) - 1 : v.rows[j][INDEX].v < v.rows[j + 1][INDEX].v
        /\ \A j \in 1..Len(v.rows) :
              /\ v.rows[j][INDEX].v + 1 \in 1..Len(d.rows)
              /\ v.rows[j] = d.rows[v.rows[j][INDEX].v + 1]
        /\ \A i \in 1..Len(d.rows) :
              (i \in kept) <=>
                  /\ CategoriesAdmit(d.rows[i])
                  /\ Len(CurrentRange(d)) = 2 =>
                        DayWithin(d.rows[i], CurrentRange(d)[1], CurrentRange(d)[2])

\* the dashboard displays a FilteredView: the run has assigned it to
\* dashboard.df and is rendering or has rendered a page from it
ViewDisplayed ==
    /\ app = "dashboard"
    /\ \/ pc = "view"
       \/ pc \in {"end", "crashed"} /\ HasFrame /\ where # "create_filters"

\* the displayed FilteredView is the filter of the session's Dataset under the
\* current parameters alone
ViewOfCurrentParameters == ViewDisplayed => IsViewOf(df, SessionDataset)

\* a successful load_data step happens only while no Dataset has been
\* constructed in the session
LoadsOnce ==
    (app = "dashboard" /\ pc = "start" /\ pc' = "loaded") => ~constructed

\* C10 as stated: the Dataset is constructed once per session, and after any
\* sequence of parameter changes the displayed FilteredView is the filter of
\* that Dataset under the current parameters
C10_ConstructedOnce == [][LoadsOnce]_vars /\ []ViewOfCurrentParameters

\* C10 as amended: the Dataset is constructed anew by every run of main, one
\* run per parameter change, and every run constructs the same Dataset (the
\* upload parsed again, or the generator reseeded with 42); after any sequence
\* of parameter changes the displayed FilteredView is the filter of that
\* Dataset under the current parameters alone, never of an earlier view
C10_ViewOfCurrentParametersOnly ==
    /\ (app = "dashboard" /\ pc \in {"loaded", "filtered"}) =>
            /\ constructed
            /\ df = SessionDataset
    /\ ViewOfCurrentParameters

\* the view displayed after at least two parameter changes, hence at least
\* three runs: a selection and a date range are set, and the view is a
\* non-empty proper part of the Dataset
C10_Witness ==
    /\ ViewDisplayed
    /\ widgets.selected_wricef # ALL
    /\ widgets.date_range.set
    /\ Len(df.rows) > 0
    /\ Len(df.rows) < Len(SessionDataset.rows)

-----------------------------------------------------------------------------
(* Preparer: properties.  They are stated on the analysis script, whose    *)
(* constructor calls prepare_data on what load_data left in self.df.       *)

\* prepare_data has run in the analysis script
Prepared == app = "script" /\ pc \notin {"start", "loaded"}

\* the raw Dataset: what load_data read from the file
RawDataset == file.data

\* C11: prepare_data is idempotent: applied to the Dataset it has produced,
\* whatever the raw cells and columns were, it yields that same Dataset
C11_PrepareIdempotent == Prepared => prepare_data(df) = df

\* prepare_data has changed a date cell and an effort cell of the raw Dataset
C11_Witness ==
    /\ Prepared
    /\ file.kind = "readable"
    /\ {FSD, ABAPF} \subseteq df.cols
    /\ \E i \in 1..Len(df.rows) :
          /\ df.rows[i][FSD] # RawDataset.rows[i][FSD]
          /\ df.rows[i][ABAPF] # RawDataset.rows[i][ABAPF]

\* C12: after prepare_data every cell of every effort column present is a
\* number greater than or equal to 0
C12_EffortsNonNegative ==
    Prepared =>
        \A c \in effort_cols \cap df.cols :
            \A i \in 1..Len(df.rows) :
                /\ df.rows[i][c].t = "num"
                /\ df.rows[i][c].v >= 0

\* a raw cell is numeric: a number, or text that reads as one
IsNumeric(c) == c.t \in {"num", "numstr"}

RECURSIVE CountedSum(_, _)
\* the sum of a column's raw cells with every non-numeric cell counted as 0
CountedSum(cells, n) ==
    IF n = 0 THEN 0
    ELSE CountedSum(cells, n - 1) + (IF IsNumeric(cells[n]) THEN cells[n].v ELSE 0)

\* the statement of kind k among the insights
Statement(k) == insights[CHOOSE j \in 1..Len(insights) : insights[j].k = k]

\* C13: when a present effort column of the raw Dataset holds a non-numeric
\* cell, prepare_data keeps every record and makes that cell 0, and the ABAP
\* forecast sum and mean of the insights range over all records, the cell
\* counted as 0 and the mean's divisor the record count
C13_NonNumericCountedAsZero ==
    (Prepared /\ file.kind = "readable") =>
        /\ Len(df.rows) = Len(RawDataset.rows)
        /\ \A c \in effort_cols \cap df.cols :
              \A i \in 1..Len(df.rows) :
                  ~IsNumeric(RawDataset.rows[i][c]) => df.rows[i][c] = Num(0)
        /\ (pc \in {"insights", "done"} /\ ABAPF \in df.cols) =>
              LET raw == Column(RawDataset, ABAPF)
              IN  /\ Statement("abap_mean").sum = CountedSum(raw, Len(raw))
                  /\ Statement("abap_mean").n = Len(raw)
                  /\ Statement("abap_total").sum = CountedSum(raw, Len(raw))

\* the insights report the ABAP forecast of a Dataset of two records, one of
\* them with text in its forecast cell
C13_Witness ==
    /\ app = "script" /\ pc = "insights"
    /\ file.kind = "readable"
    /\ ABAPF \in df.cols
    /\ Len(RawDataset.rows) = 2
    /\ \E i \in 1..2 : RawDataset.rows[i][ABAPF].t = "str"
    /\ \E i \in 1..2 : RawDataset.rows[i][ABAPF].t = "num" /\ RawDataset.rows[i][ABAPF].v > 0
    /\ Statement("abap_mean").n = 2

\* a Filter Engine, Aggregator or Renderer operation has read self.df
ReadByAnOperation ==
    \/ app = "script" /\ pc \in {"static_plots", "interactive_plots", "insights",
                                 "done", "crashed"}
    \/ app = "dashboard" /\ pc \in {"filtered", "view", "end", "crashed"} /\ HasFrame

\* what the Preparer leaves: timestamps or NaT in the date columns, numbers in
\* the effort columns
IsPrepared(d) ==
    \A i \in 1..Len(d.rows) :
        /\ \A c \in {FSD, DEVD} \cap d.cols : d.rows[i][c].t \in {"ts", "nat"}
        /\ \A c \in {ABAPF, ABAPA, PIF, PIA} \cap d.cols : d.rows[i][c].t = "num"

\* C14: in both applications, on every path, the Dataset a Filter Engine,
\* Aggregator or Renderer operation reads has passed through the Preparer
C14_PreparedBeforeRead == ReadByAnOperation => IsPrepared(df)

-----------------------------------------------------------------------------
(* The Synthetic Generator on its own: create_sample_data called any       *)
(* number of times on one object, other code drawing from NumPy's global   *)
(* generator before and between the calls.  df is self.df, ret the         *)
(* DataFrame the call before left in self.df, out the calls made so far.   *)

InitGen ==
    /\ app \in {"script", "dashboard"}
    /\ file = Unreadable
    /\ pc = "generator"
    /\ df = None
    /\ rng \in { np_random_seed(s) : s \in {0, 7, 42} }
    /\ out = <<>>
    /\ err = "none"
    /\ widgets = NewWidgets
    /\ sidebar = NoSidebar
    /\ ret = None
    /\ where = "none"
    /\ insights = <<>>
    /\ constructed = FALSE
    /\ status = None

\* other code draws n values: np.random.choice, uniform, randint, ...
G_draw ==
    /\ pc = "generator" /\ Len(out) < MaxCalls
    /\ \E n \in 1..MaxDraw : rng' = advance(rng, n)
    /\ out' = Append(out, "draw")
    /\ UNCHANGED <<status, app, file, pc, df, err, widgets, sidebar, ret, where, insights,
                   constructed>>

\* self.create_sample_data()
G_create_sample_data ==
    /\ pc = "generator" /\ Len(out) < MaxCalls
    /\ LET r == IF app = "script" THEN Viz_create_sample_data(rng)
                                  ELSE Dash_create_sample_data(rng)
       IN  /\ df' = r.df
           /\ rng' = r.rng
    /\ ret' = df
    /\ out' = Append(out, "create_sample_data")
    /\ constructed' = TRUE
    /\ UNCHANGED <<status, app, file, pc, err, widgets, sidebar, where, insights>>

NextGen == G_draw \/ G_create_sample_data

SpecGen == InitGen /\ [][NextGen]_vars

\* C15: create_sample_data is deterministic: every call leaves exactly 500
\* records, a call leaves the same Dataset as the call before it however much
\* of the generator was drawn before or between them, and each call leaves the
\* generator on the stream of seed 42
C15_SampleDataDeterministic ==
    /\ HasFrame => Length(df) = 500
    /\ (HasFrame /\ ret # None) => df = ret
    /\ (out # <<>> /\ out[Len(out)] = "create_sample_data") => rng.seed = 42

\* two calls with draws made between them, the generator first seeded otherwise
C15_Witness ==
    /\ Len(out) = 4
    /\ out = <<"draw", "create_sample_data", "draw", "create_sample_data">>
    /\ HasFrame /\ ret # None
    /\ df = ret

\* C16: every record of the generator has its categorical fields inside their
\* enumerations, its ABAP efforts in [10, 200] and PI efforts in [5, 100] (the
\* model counts hours in tenths), and its two dates between 2022-01-01 and
\* 2024-12-31, the first and the last day of a window of 365 + 365 + 366 days
C16_SampleDataInRange ==
    HasFrame =>
        \A i \in 1..Len(df.rows) :
            LET r == df.rows[i]
                within(c, S) == c \in df.cols => (r[c].t = "str" /\ r[c].v \in S)
                hours(c, lo, hi) ==
                    c \in df.cols => (r[c].t = "num" /\ lo * 10 <= r[c].v /\ r[c].v <= hi * 10)
                dated(c) ==
                    c \in df.cols =>
                        /\ r[c].t = "ts"
                        /\ 0 <= r[c].v
                        /\ r[c].v < (365 + 365 + 366) * TicksPerDay
            IN  /\ within(IMPL, {"Catalyst", "Goldilocks (ANZ)", "EWM", "Supernova"})
                /\ within(WTYPE, {"W", "R", "I", "C", "E", "F"})
                /\ within(CPLX, {"Low", "Medium", "High", "Very High"})
                /\ within(PRIO, {"1 - High", "2 - Medium", "3 - Low"})
                /\ within(STAGE, {"06 - Dev Completed", "04 - Dev in progress",
                                  "16 - FS Review in Progress", "13 - Deferred",
                                  "15 - No Development Required"})
                /\ within(AREA, {"STS", "RTR", "MDM", "PTM", "PTP", "LEX", "OTC", "EWM"})
                /\ hours(ABAPF, 10, 200) /\ hours(ABAPA, 10, 200)
                /\ hours(PIF, 5, 100) /\ hours(PIA, 5, 100)
                /\ dated(FSD) /\ dated(DEVD)

\* the dashboard's generator has produced its 500 records, with all fifteen
\* columns, and some record's ABAP forecast lies above 190 hours
C16_Witness ==
    /\ app = "dashboard" /\ HasFrame
    /\ out # <<>>
    /\ df.cols = DashCols
    /\ Len(df.rows) = 500
    /\ \E i \in 1..Len(df.rows) : df.rows[i][ABAPF].v > 1900

-----------------------------------------------------------------------------
(* setup.py.  out is the sequence of what the script has done so far: what *)
(* it printed and its side effects (pip runs, files written, directories   *)
(* made), each an event [op, arg, on].                                     *)

Event(op, arg, on) == [op |-> op, arg |-> arg, on |-> on]
\* print(...): the message, and the name it is about
Say(msg, on) == Event("print", msg, on)

RECURSIVE Flatten(_)
\* the concatenation of a sequence of sequences
Flatten(qs) == IF qs = <<>> THEN <<>> ELSE Head(qs) \o Flatten(Tail(qs))

\* check_python_version, with sys.version_info >= (3, 8) or not
check_python_version(version_ok) ==
    IF ~version_ok
    THEN [ret |-> FALSE, out |-> <<Say("Python 3.8 or higher is required", ""),
                                   Say("Current version", "")>>]
    ELSE [ret |-> TRUE, out |-> <<Say("Python version (Compatible)", "")>>]

\* install_package: pip run in a subprocess; a non-zero pip exit is caught
install_package(package, pip_ok) ==
    [ret |-> pip_ok, out |-> <<Event("pip install", package, "")>>]

required_packages ==
    <<[package |-> "pandas",     version |-> "pandas>=1.5.0"],
      [package |-> "numpy",      version |-> "numpy>=1.21.0"],
      [package |-> "matplotlib", version |-> "matplotlib>=3.5.0"],
      [package |-> "seaborn",    version |-> "seaborn>=0.11.0"],
      [package |-> "plotly",     version |-> "plotly>=5.0.0"],
      [package |-> "streamlit",  version |-> "streamlit>=1.25.0"],
      [package |-> "openpyxl",   version |-> "openpyxl>=3.0.9"]>>

RECURSIVE InstallLoop_keep_going(_, _)
\* the loop going on to the next package after an installation that fails
InstallLoop_keep_going(missing_packages, installable) ==
    IF missing_packages = <<>> THEN [ret |-> TRUE, out |-> <<>>]
    ELSE LET package == Head(missing_packages)
             r == install_package(package, package \in installable)
             tried == <<Say("Installing", package)>> \o r.out
             rest == InstallLoop_keep_going(Tail(missing_packages), installable)
         IN  IF r.ret
             THEN [ret |-> rest.ret,
                   out |-> tried \o <<Say("installed successfully", package)>> \o rest.out]
             ELSE [ret |-> FALSE,
                   out |-> tried \o <<Say("Failed to install", package)>> \o rest.out]

RECURSIVE InstallLoop(_, _)
\* for package in missing_packages: install it, return False at the first
\* installation that fails
InstallLoop(missing_packages, installable) ==
    IF missing_packages = <<>> THEN [ret |-> TRUE, out |-> <<>>]
    ELSE LET package == Head(missing_packages)
             r == install_package(package, package \in installable)
             tried == <<Say("Installing", package)>> \o r.out
         IN  IF r.ret
             THEN LET rest == InstallLoop(Tail(missing_packages), installable)
                  IN  [ret |-> rest.ret,
                       out |-> tried \o <<Say("installed successfully", package)>> \o rest.out]
             ELSE [ret |-> FALSE, out |-> tried \o <<Say("Failed to install", package)>>]

\* check_and_install_packages, with the set of modules import_module finds and
\* the set of requirements pip manages to install
check_and_install_packages(importable, installable) ==
    LET found(p) == p.package \in importable
        checks == [i \in 1..Len(required_packages) |->
                      IF found(required_packages[i])
                      THEN Say("Already installed", required_packages[i].package)
                      ELSE Say("Not found", required_packages[i].package)]
        missing == SelectSeq(required_packages, LAMBDA p : ~found(p))
        missing_packages == [i \in 1..Len(missing) |-> missing[i].version]
        loop == InstallLoop(missing_packages, installable)
    IN  [ret |-> loop.ret,
         out |-> <<Say("Checking required packages...", "")>> \o checks
                 \o (IF missing_packages # <<>>
                     THEN <<Say("Installing missing packages...", "")>> \o loop.out
                     ELSE <<>>)
                 \o (IF loop.ret THEN <<Say("All required packages are installed!", "")>>
                                 ELSE <<>>)]

files_to_create == <<"config.py", "run_dashboard.bat", "run_analysis.bat",
                     "run_quick_start.bat">>

\* create_sample_files, with the set of these files that exist already
create_sample_files(existing) ==
    <<Say("Creating configuration files...", "")>>
    \o Flatten([i \in 1..Len(files_to_create) |->
                  IF files_to_create[i] \notin existing
                  THEN <<Event("write", files_to_create[i], ""),
                         Say("Created", files_to_create[i])>>
                  ELSE <<Say("already exists", files_to_create[i])>>])

required_files == <<"wricef_visualizer.py", "streamlit_dashboard.py",
                    "quick_start_example.py", "requirements.txt">>

\* check_files, with the set of required files that exist
check_files(present) ==
    LET checks == [i \in 1..Len(required_files) |->
                      IF required_files[i] \in present
                      THEN Say("Found", required_files[i])
                      ELSE Say("Missing", required_files[i])]
        missing_files == SelectSeq(required_files, LAMBDA f : f \notin present)
    IN  IF missing_files # <<>>
        THEN [ret |-> FALSE,
              out |-> <<Say("Checking required files...", "")>> \o checks
                      \o <<Say("Missing files", ""),
                           Say("Please ensure all required Python files are in the current directory", "")>>]
        ELSE [ret |-> TRUE, out |-> <<Say("Checking required files...", "")>> \o checks]

\* create_output_directory, with the directory there already or not
create_output_directory(exists) ==
    IF ~exists
    THEN <<Event("makedirs", "output", ""), Say("Created directory", "output")>>
    ELSE <<Say("directory already exists", "output")>>

display_usage_instructions == <<Say("Setup Complete! Here's how to use ...", "")>>

\* what main returned
Returned(b) == [t |-> "bool", v |-> b]
\* the exit status of the process
Exit(n) == [t |-> "exit", v |-> n]

Modules == { required_packages[i].package : i \in 1..Len(required_packages) }
\* the sets of modules the interpreter may find: at most MaxMissing are absent
Importables == { Modules \ m : m \in { x \in SUBSET Modules : Cardinality(x) <= MaxMissing } }
\* the requirements of the modules that are absent
Missing(importable) ==
    { required_packages[i].version :
        i \in { j \in 1..Len(required_packages) : required_packages[j].package \notin importable } }
Range(q) == { q[i] : i \in 1..Len(q) }

InitSetup ==
    /\ app = "setup"
    /\ file = NoUpload
    /\ pc = "start"
    /\ df = None
    /\ rng = np_random_seed(0)
    /\ out = <<>>
    /\ err = "none"
    /\ widgets = NewWidgets
    /\ sidebar = NoSidebar
    /\ ret = None
    /\ where = "none"
    /\ insights = <<>>
    /\ constructed = FALSE
    /\ status = None

\* main: the banner, then "if not check_python_version(): return False"
S_check_python_version ==
    /\ app = "setup" /\ pc = "start"
    /\ \E version_ok \in BOOLEAN :
         LET r == check_python_version(version_ok)
         IN  /\ out' = out \o <<Say("WRICEF Data Visualization Setup", "")>> \o r.out
             /\ pc' = IF r.ret THEN "check_files" ELSE "returned"
             /\ ret' = IF r.ret THEN ret ELSE Returned(FALSE)
    /\ UNCHANGED <<status, app, file, df, rng, err, widgets, sidebar, where, insights, constructed>>

\* main: "if not check_files(): return False"
S_check_files ==
    /\ app = "setup" /\ pc = "check_files"
    /\ \E present \in SUBSET Range(required_files) :
         LET r == check_files(present)
         IN  /\ out' = out \o r.out
             /\ pc' = IF r.ret THEN "check_packages" ELSE "returned"
             /\ ret' = IF r.ret THEN ret ELSE Returned(FALSE)
    /\ UNCHANGED <<status, app, file, df, rng, err, widgets, sidebar, where, insights, constructed>>

\* main: "if not check_and_install_packages(): return False"
S_check_and_install_packages ==
    /\ app = "setup" /\ pc = "check_packages"
    /\ \E importable \in Importables :
         \E installable \in SUBSET Missing(importable) :
           LET r == check_and_install_packages(importable, installable)
           IN  /\ out' = out \o r.out
               /\ pc' = IF r.ret THEN "create_files" ELSE "returned"
               /\ ret' = IF r.ret THEN ret ELSE Returned(FALSE)
    /\ UNCHANGED <<status, app, file, df, rng, err, widgets, sidebar, where, insights, constructed>>

\* main: create_sample_files(); open(filename, 'w') raises where the directory
\* cannot be written
S_create_sample_files ==
    /\ app = "setup" /\ pc = "create_files"
    /\ \E existing \in SUBSET Range(files_to_create) :
         \E writable \in BOOLEAN :
           IF writable \/ existing = Range(files_to_create)
           THEN /\ out' = out \o create_sample_files(existing)
                /\ pc' = "create_directory"
                /\ err' = err
           ELSE /\ out' = out \o <<Say("Creating configuration files...", "")>>
                /\ pc' = "raised"
                /\ err' = "PermissionError"
    /\ UNCHANGED <<status, app, file, df, rng, widgets, sidebar, ret, where, insights, constructed>>

\* main: create_output_directory()
S_create_output_directory ==
    /\ app = "setup" /\ pc = "create_directory"
    /\ \E exists \in BOOLEAN :
         out' = out \o create_output_directory(exists)
    /\ pc' = "instructions"
    /\ UNCHANGED <<status, app, file, df, rng, err, widgets, sidebar, ret, where, insights, constructed>>

\* main: display_usage_instructions() and the message of success
S_display_usage_instructions ==
    /\ app = "setup" /\ pc = "instructions"
    /\ out' = out \o display_usage_instructions
                  \o <<Say("Setup completed successfully!", "")>>
    /\ pc' = "quick_start"
    /\ UNCHANGED <<status, app, file, df, rng, err, widgets, sidebar, ret, where, insights, constructed>>

\* main: the quick-start question; input() raises at the end of the input or
\* at an interrupt, and an import that fails is caught and reported
S_quick_start ==
    /\ app = "setup" /\ pc = "quick_start"
    /\ \E response \in {"y", "n", "EOFError", "KeyboardInterrupt"} :
         \E import_ok \in BOOLEAN :
           CASE response = "y" ->
                  /\ out' = out \o <<Say("Running Quick Start Example...", "")>>
                                \o (IF import_ok THEN <<>>
                                    ELSE <<Say("Error running quick start", ""),
                                           Say("You can run it manually: python quick_start_example.py", "")>>)
                  /\ pc' = "returned" /\ ret' = Returned(TRUE) /\ err' = err
             [] response = "n" ->
                  /\ out' = out
                  /\ pc' = "returned" /\ ret' = Returned(TRUE) /\ err' = err
             [] OTHER ->
                  /\ out' = out
                  /\ pc' = "raised" /\ ret' = ret /\ err' = response
    /\ UNCHANGED <<status, app, file, df, rng, widgets, sidebar, where, insights, constructed>>

\* __main__: main() has returned (its value is dropped) or an except clause
\* reports what it raised
S_main_done ==
    /\ app = "setup" /\ pc \in {"returned", "raised"}
    /\ out' = CASE pc = "returned" -> out
                [] err = "KeyboardInterrupt" -> out \o <<Say("Setup interrupted by user", "")>>
                [] OTHER -> out \o <<Say("Setup failed with error", err),
                                     Say("Please check the error message and try again", "")>>
    /\ pc' = "press_enter"
    /\ UNCHANGED <<status, app, file, df, rng, err, widgets, sidebar, ret, where, insights, constructed>>

\* __main__: input("Press Enter to exit...") and the end of the script: the
\* status is 0 unless this last input() itself raises
S_press_enter ==
    /\ app = "setup" /\ pc = "press_enter"
    /\ \E answer \in {"enter", "EOFError", "KeyboardInterrupt"} :
         /\ status' = CASE answer = "enter" -> Exit(0)
                        [] answer = "EOFError" -> Exit(1)
                        [] OTHER -> Exit(130)
         /\ err' = IF answer = "enter" THEN err ELSE answer
    /\ pc' = "exited"
    /\ UNCHANGED <<app, file, df, rng, out, widgets, sidebar, ret, where, insights, constructed>>

NextSetup ==
    \/ S_check_python_version
    \/ S_check_files
    \/ S_check_and_install_packages
    \/ S_create_sample_files
    \/ S_create_output_directory
    \/ S_display_usage_instructions
    \/ S_quick_start
    \/ S_main_done
    \/ S_press_enter

SpecSetup == InitSetup /\ [][NextSetup]_vars

-----------------------------------------------------------------------------
(* setup.py: properties *)

\* the script has ended after one of its checks failed: main returned False
SetupErrorExit ==
    app = "setup" /\ pc = "exited" /\ ret = Returned(FALSE)

\* the script has printed a message that tells the operator what went wrong
ActionableMessage ==
    \E i \in 1..Len(out) :
        out[i].op = "print"
        /\ out[i].arg \in {"Python 3.8 or higher is required",
                          "Please ensure all required Python files are in the current directory",
                          "Failed to install"}

\* C17: when a check of the setup script fails (Python too old, a required
\* file missing, an installation that fails) the script prints an actionable
\* message and the process ends with a non-zero exit status
C17_SetupErrorExitsNonZero ==
    SetupErrorExit => (ActionableMessage /\ status # Exit(0))

-----------------------------------------------------------------------------
(* Aggregator / Insight Generator: properties *)

\* generate_insights has returned its statements
InsightsProduced == app \in {"script", "dashboard"} /\ insights # <<>>

\* what each statement of a sequence is about
Kinds(q) == [i \in 1..Len(q) |-> q[i].k]

\* the order of the statements the specification gives: the ABAP statements
\* with_abap or not, and the last statement
StatementOrder(with_abap, last) ==
    <<"total", "wricef", "implementation">>
    \o (IF with_abap THEN <<"abap_mean", "abap_total">> ELSE <<>>)
    \o <<"complexity", "priority", last>>

\* C18: generate_insights produces its statements in a fixed order: total,
\* most frequent WRICEF Type, largest Implementation, mean and sum of the ABAP
\* forecast, most frequent Complexity, most frequent Priority, then Stage
\* (script) or the effort ratio (dashboard); in the script the two ABAP
\* statements are there exactly when the ABAP forecast column is, and the
\* others keep their order without them
C18_StatementsInFixedOrder ==
    InsightsProduced =>
        Kinds(insights) = IF app = "script"
                          THEN StatementOrder(ABAPF \in df.cols, "stage")
                          ELSE StatementOrder(TRUE, "efficiency")

\* the script has produced its statements for a Dataset of two records that
\* lacks the ABAP forecast column
C18_Witness ==
    /\ InsightsProduced /\ app = "script"
    /\ Length(df) = 2 /\ ABAPF \notin df.cols
    /\ Len(insights) = 6

\* the field a "most frequent" statement is about
FieldOf(k) ==
    CASE k = "wricef" -> WTYPE
      [] k = "implementation" -> IMPL
      [] k = "complexity" -> CPLX
      [] k = "priority" -> PRIO
      [] k = "stage" -> STAGE

\* the "most frequent" statements among the statements produced
MostFrequentStatements ==
    { i \in 1..Len(insights) :
        insights[i].k \in {"wricef", "implementation", "complexity", "priority", "stage"} }

\* the rows of d that hold x in column c
Occurrences(d, c, x) == { i \in 1..Len(d.rows) : d.rows[i][c] = x }

\* the values of column c that occur most often in d
MostFrequent(d, c) ==
    { x \in { d.rows[i][c] : i \in { j \in 1..Len(d.rows) : ~IsNull(d.rows[j][c]) } } :
        \A j \in 1..Len(d.rows) :
            IsNull(d.rows[j][c])
            \/ Cardinality(Occurrences(d, c, d.rows[j][c])) <= Cardinality(Occurrences(d, c, x)) }

\* statement s names a most frequent value of its field in d and gives its
\* number of occurrences, which lies in 1..total
NamesAMostFrequent(s, d) ==
    /\ s.value \in MostFrequent(d, FieldOf(s.k))
    /\ s.count = Cardinality(Occurrences(d, FieldOf(s.k), s.value))
    /\ s.total = Length(d)
    /\ s.count \in 1..s.total

\* of the most frequent values, s names the one met first in row order
NamesFirstEncountered(s, d) ==
    \A y \in MostFrequent(d, FieldOf(s.k)) :
        SetMin(Occurrences(d, FieldOf(s.k), s.value)) <= SetMin(Occurrences(d, FieldOf(s.k), y))

\* of the most frequent values, s names the least in the order of strings
NamesLeast(s, d) ==
    \A y \in MostFrequent(d, FieldOf(s.k)) : Rank(s.value) <= Rank(y)

\* C19 as stated: each "most frequent" statement names a value no other value
\* of the field occurs more often than, reports its number of occurrences, a
\* number in 1..total, and of several values that tie names the first
\* encountered, by the same rule for every field
C19_TiesFirstEncounteredEveryField ==
    InsightsProduced =>
        \A i \in MostFrequentStatements :
            NamesAMostFrequent(insights[i], df) /\ NamesFirstEncountered(insights[i], df)

\* C19 amended: each "most frequent" statement names a value no other value of
\* the field occurs more often than, reports its number of occurrences, a
\* number in 1..total; of several values that tie, the WRICEF Type statement
\* names the least in sort order and the other statements the first encountered
C19_TiesByFieldRule ==
    InsightsProduced =>
        \A i \in MostFrequentStatements :
            /\ NamesAMostFrequent(insights[i], df)
            /\ IF insights[i].k = "wricef"
               THEN NamesLeast(insights[i], df)
               ELSE NamesFirstEncountered(insights[i], df)

\* statements produced for a Dataset whose first record holds WRICEF Type W
\* and whose second holds R: the two tie, R is the least and W the first; the
\* Implementations tie as well
C19_Witness ==
    /\ InsightsProduced
    /\ Length(df) = 2
    /\ df.rows[1][WTYPE] = Str("W") /\ df.rows[2][WTYPE] = Str("R")
    /\ df.rows[1][IMPL] # df.rows[2][IMPL]
    /\ \E i \in MostFrequentStatements :
          insights[i].k = "wricef" /\ insights[i].value = Str("R")

\* the actual and forecast ABAP effort of the records of d whose forecast is a
\* number other than 0 and whose actual effort is a number, in row order
NonzeroForecastTerms(d) ==
    LET rr == SelectSeq(d.rows, LAMBDA r : /\ r[ABAPF].t = "num" /\ r[ABAPF].v # 0
                                           /\ r[ABAPA].t = "num")
    IN  [i \in 1..Len(rr) |-> <<rr[i][ABAPA].v, rr[i][ABAPF].v>>]

\* C20: the dashboard's effort-efficiency statement is the mean of
\* actual/forecast over exactly the records whose forecast effort is nonzero:
\* a record whose forecast is 0 contributes no term and nothing is divided by 0
C20_EfficiencyOverNonzeroForecast ==
    (InsightsProduced /\ app = "dashboard") =>
        \A i \in 1..Len(insights) :
            insights[i].k = "efficiency" =>
                /\ insights[i].terms = NonzeroForecastTerms(df)
                /\ \A j \in 1..Len(insights[i].terms) : insights[i].terms[j][2] # 0

-----------------------------------------------------------------------------
(* Filter Engine: algebraic properties *)

\* the orders in which the five predicates can be applied
PredicateOrders ==
    { p \in [1..5 -> 1..5] : \A i, j \in 1..5 : p[i] = p[j] => i = j }

\* the k-th predicate of create_filters under the parameters of this run
PredicateStep(k, rows) ==
    CASE k = 1 -> FilterSelected(rows, IMPL, widgets.selected_impl)
      [] k = 2 -> FilterSelected(rows, WTYPE, widgets.selected_wricef)
      [] k = 3 -> FilterSelected(rows, CPLX, widgets.selected_complexity)
      [] k = 4 -> FilterSelected(rows, PRIO, widgets.selected_priority)
      [] k = 5 -> FilterDates(rows, DateParam)

RECURSIVE ApplyInOrder(_, _, _)
\* the predicates p[1], ..., p[n] applied to rows one after the other
ApplyInOrder(p, n, rows) ==
    IF n = 0 THEN rows ELSE PredicateStep(p[n], ApplyInOrder(p, n - 1, rows))

\* the result of this run filtered again under the same parameters
FilteredAgain ==
    ApplyFilters(ret, widgets.selected_impl, widgets.selected_wricef,
                 widgets.selected_complexity, widgets.selected_priority, DateParam)

\* C21: the filter is idempotent and insensitive to the order of its
\* predicates: filtering the result again under the same parameters returns
\* the same records, and the five predicates applied in any order return the
\* records the code's order returns, in the same order
C21_IdempotentAnyOrder ==
    FilterRan =>
        /\ FilteredAgain = ret
        /\ \A p \in PredicateOrders : ApplyInOrder(p, 5, df.rows) = ret.rows

\* a run whose Implementation and Priority selections and whose date range
\* each drop a record on their own, and which returns some but not all records
C21_Witness ==
    /\ FilterRan
    /\ widgets.selected_impl # ALL /\ widgets.selected_priority # ALL
    /\ Len(DateParam) = 2
    /\ Len(PredicateStep(1, df.rows)) < Len(df.rows)
    /\ Len(PredicateStep(4, df.rows)) < Len(df.rows)
    /\ Len(PredicateStep(5, df.rows)) < Len(df.rows)
    /\ Len(ret.rows) > 0

\* the event e is in the log before position i
Before(i, e) == \E j \in 1..(i - 1) : out[j] = e

\* the positions of the log that hold an event of one of the kinds ops
EventsOf(ops) == { i \in 1..Len(out) : out[i].op \in ops }

\* the module a requirement installs
PackageOf(version) ==
    CHOOSE m \in Modules : \E k \in 1..Len(required_packages) :
        required_packages[k] = [package |-> m, version |-> version]

\* before position i the version check and the required-files check passed
ChecksPassedBefore(i) ==
    /\ Before(i, Say("Python version (Compatible)", ""))
    /\ \A f \in Range(required_files) : Before(i, Say("Found", f))

\* before position i no installation had failed
NoFailureBefore(i) ==
    \A j \in 1..(i - 1) : ~(out[j].op = "print" /\ out[j].arg = "Failed to install")

\* before position i every required package was found by import or installed
AllPackagesReadyBefore(i) ==
    \A k \in 1..Len(required_packages) :
        \/ Before(i, Say("Already installed", required_packages[k].package))
        \/ /\ Before(i, Event("pip install", required_packages[k].version, ""))
           /\ Before(i, Say("installed successfully", required_packages[k].version))

\* C22: the setup script's side effects stay behind its checks: pip is run
\* only once the version check and the required-files check have passed, only
\* for a package whose import failed, and never after an installation that
\* failed; a configuration file or the output directory is created only once
\* every required package was importable or installed successfully
C22_SideEffectsBehindChecks ==
    app = "setup" =>
        /\ \A i \in EventsOf({"pip install"}) :
              /\ ChecksPassedBefore(i)
              /\ Before(i, Say("Not found", PackageOf(out[i].arg)))
              /\ NoFailureBefore(i)
        /\ \A i \in EventsOf({"write", "makedirs"}) :
              /\ ChecksPassedBefore(i)
              /\ AllPackagesReadyBefore(i)

\* a run of the script that installed two missing packages, then wrote a
\* configuration file and made the output directory
C22_Witness ==
    /\ app = "setup"
    /\ Cardinality(EventsOf({"pip install"})) = 2
    /\ EventsOf({"write"}) # {}
    /\ EventsOf({"makedirs"}) # {}

====
